---- MODULE Spec2Model ----
(***************************************************************************)
(* Model of the SQLite-backed ProcessRegistry (src/process_registry.py).   *)
(* The table `processes` is a set of rows; every registry method is one    *)
(* action, because each method runs exactly one SQL statement inside its   *)
(* own connection and commits it (SQLite makes a statement atomic with     *)
(* respect to every other connection).                                     *)
(*                                                                         *)
(* Python None / SQL NULL is modelled per column type: NullStr for TEXT    *)
(* arguments, NullInt for INTEGER ones, NullText for stored timestamps.    *)
(* A timestamp text (datetime.isoformat()) is a fixed-width sequence of    *)
(* digits, compared the way SQLite compares TEXT: lexicographically.       *)
(***************************************************************************)
EXTENDS Integers, Sequences, FiniteSets, TLC

VARIABLES
  processes,   \* the rows of table `processes`
  now,         \* the wall clock (datetime.now()), in seconds
  ret,         \* the last registry call: its arguments and what it returned
  columns,     \* the columns of table `processes` in the database file
  th,          \* concurrent callers: the call each makes and how far it got
  wlock,       \* the caller holding SQLite's write lock, or "none"
  open,        \* the callers whose sqlite3 connection is open
  fmt,         \* format_process: the row it is given and what it returns
  removed      \* history: the rows delete and cleanup removed last, where it is kept

vars == <<processes, now, ret, columns, th, wlock, open, fmt, removed>>

\* the variables the sequential registry calls leave alone
other == <<columns, th, wlock, open, fmt, removed>>

\* ---------------------------------------------------------------- bounds
MaxTicks == 1      \* how many times the wall clock advances
Epoch == 9         \* day number of the wall clock in the initial state

\* ------------------------------------------------------- program constants
DaySeconds == 86400

\* ------------------------------------------------------------ null values
NullStr == "NULL"
NullInt == -1
NullText == <<>>

\* ----------------------------------------------------------------- inputs
ProcessIds == {"p1", "p2"}

\* the argument tuples register_process is called with (besides process_id)
RegArgs ==
  { [command |-> "c1", pid |-> 1, log_file |-> "out.log",
     working_dir |-> "/home/x", stdout_log |-> NullStr, stderr_log |-> NullStr],
    [command |-> "c2", pid |-> NullInt, log_file |-> "/tmp/abs.log",
     working_dir |-> NullStr, stdout_log |-> "out.stdout.log", stderr_log |-> NullStr] }

NoArgs ==
  [command |-> NullStr, pid |-> NullInt, log_file |-> NullStr,
   working_dir |-> NullStr, stdout_log |-> NullStr, stderr_log |-> NullStr]

\* the (status, exit_code) pairs update_process_status is called with: the
\* three documented statuses and one more string (the method takes any str)
UpdateCalls ==
  { <<"completed", 0>>, <<"failed", 1>>, <<"failed", NullInt>>,
    <<"running", NullInt>>, <<"running", 1>>, <<"paused", NullInt>> }

\* status filters passed to list_processes (NullStr: argument omitted)
StatusFilters == {NullStr, "", "running", "completed"}
Limits == {NullInt, 0, 1}
\* the (status, limit, with_separate_streams) triples list_processes is called
\* with; with_separate_streams is None (NullInt), False (0) or True (1)
ListCalls ==
  (StatusFilters \X Limits \X {NullInt}) \cup ({NullStr} \X {NullInt} \X {0, 1})
Days == {0, 1}

\* ------------------------------------------------------------- timestamps
\* datetime.isoformat(): a fixed-width text; here the two digits of the day
isoformat(t) == LET d == t \div DaySeconds IN <<d \div 10, d % 10>>

\* TEXT comparison of SQLite (memcmp order)
RECURSIVE TextLt(_, _)
TextLt(a, b) ==
  IF b = <<>> THEN FALSE
  ELSE IF a = <<>> THEN TRUE
  ELSE IF Head(a) # Head(b) THEN Head(a) < Head(b)
  ELSE TextLt(Tail(a), Tail(b))

\* `x < ?` in a WHERE clause: NULL compares as unknown, the row is not selected
SqlLt(a, b) == a # NullText /\ b # NullText /\ TextLt(a, b)

\* Python truthiness of an Optional[str] / Optional[int] argument
TruthyStr(s) == s # NullStr /\ s # ""
TruthyInt(n) == n # NullInt /\ n # 0

\* bool stored in a BOOLEAN (numeric affinity) column
BoolToInt(b) == IF b THEN 1 ELSE 0

\* ----------------------------------------------------------------- result
NoRet ==
  [op |-> "init", process_id |-> NullStr, args |-> NoArgs, status |-> NullStr,
   exit_code |-> NullInt, limit |-> NullInt, streams |-> NullInt, days |-> 0,
   cutoff |-> NullText, error |-> "", row |-> {}, rows |-> <<>>,
   count |-> 0, deleted |-> FALSE]

\* ----------------------------------------------------------------- schema
\* the columns of CREATE TABLE processes, and the ones added by ALTER TABLE
BaseColumns ==
  {"process_id", "command", "pid", "status", "log_file", "working_dir",
   "started_at", "completed_at", "exit_code"}
AddedColumns == {"stdout_log", "stderr_log", "has_separate_streams"}
AllColumns == BaseColumns \cup AddedColumns

\* no concurrent caller, no format_process call
NoCalls == <<>>
NoFmt == [pc |-> "none"]

\* ------------------------------------------------------------------- Init
\* the history of removed rows, for each process_id the row removed last:
\* kept where a property is about re-use of a process_id, left empty elsewhere
NoHistory == [kept |-> FALSE, rows |-> {}]
EmptyHistory == [kept |-> TRUE, rows |-> {}]
Record(h, gone) ==
  IF h.kept
  THEN [h EXCEPT !.rows = { r \in @ : \A g \in gone : g.process_id # r.process_id }
                            \cup gone]
  ELSE h

Init ==
  /\ processes = {}
  /\ now = Epoch * DaySeconds
  /\ ret = NoRet
  /\ columns = AllColumns
  /\ th = NoCalls
  /\ wlock = "none"
  /\ open = {}
  /\ removed = NoHistory
  /\ fmt = NoFmt

\* datetime.now() moves forward between calls
Tick ==
  /\ now < (Epoch + MaxTicks) * DaySeconds
  /\ now' = now + DaySeconds
  /\ UNCHANGED <<processes, ret, other>>

\* ------------------------------------------------------- register_process
HasKey(tbl, process_id) == \E r \in tbl : r.process_id = process_id

\* mutant: the INSERT leaves working_dir out of its column list
NewRow_NoWorkingDir(process_id, a, t) ==
  [process_id |-> process_id, command |-> a.command, pid |-> a.pid,
   status |-> "running", log_file |-> a.log_file,
   working_dir |-> NullStr, started_at |-> isoformat(t),
   completed_at |-> NullText, exit_code |-> NullInt,
   stdout_log |-> a.stdout_log, stderr_log |-> a.stderr_log,
   has_separate_streams |->
      BoolToInt(a.stdout_log # NullStr \/ a.stderr_log # NullStr)]

\* mutant: `and` in place of `or` in the has_separate_streams expression
NewRow_BothStreams(process_id, a, t) ==
  [process_id |-> process_id, command |-> a.command, pid |-> a.pid,
   status |-> "running", log_file |-> a.log_file,
   working_dir |-> a.working_dir, started_at |-> isoformat(t),
   completed_at |-> NullText, exit_code |-> NullInt,
   stdout_log |-> a.stdout_log, stderr_log |-> a.stderr_log,
   has_separate_streams |->
      BoolToInt(a.stdout_log # NullStr /\ a.stderr_log # NullStr)]

NewRow(process_id, a, t) ==
  [process_id |-> process_id, command |-> a.command, pid |-> a.pid,
   status |-> "running", log_file |-> a.log_file,
   working_dir |-> a.working_dir, started_at |-> isoformat(t),
   completed_at |-> NullText, exit_code |-> NullInt,
   stdout_log |-> a.stdout_log, stderr_log |-> a.stderr_log,
   has_separate_streams |->
      BoolToInt(a.stdout_log # NullStr \/ a.stderr_log # NullStr)]

\* mutant: INSERT OR REPLACE
Insert_OrReplace(tbl, process_id, a, t) ==
  [tbl |-> { r \in tbl : r.process_id # process_id } \cup {NewRow(process_id, a, t)},
   error |-> ""]

\* INSERT INTO processes ...: the PRIMARY KEY constraint aborts the statement
Insert(tbl, process_id, a, t) ==
  IF HasKey(tbl, process_id)
  THEN [tbl |-> tbl, error |-> "IntegrityError"]
  ELSE [tbl |-> tbl \cup {NewRow(process_id, a, t)}, error |-> ""]

register_process ==
  \E process_id \in ProcessIds, a \in RegArgs :
    LET res == Insert(processes, process_id, a, now) IN
      /\ processes' = res.tbl
      /\ ret' = [NoRet EXCEPT !.op = "register_process",
                              !.process_id = process_id, !.args = a,
                              !.error = res.error]
      /\ UNCHANGED <<now, other>>

\* -------------------------------------------------- update_process_status
\* UPDATE processes SET ... WHERE process_id = ?  (no row matched: no change,
\* no error; the method returns None either way)
\* mutant: the terminal UPDATE also rewrites started_at
UpdateRow_TouchStarted(r, status, exit_code, t) ==
  IF status \in {"completed", "failed"}
  THEN [r EXCEPT !.status = status, !.exit_code = exit_code,
                 !.completed_at = isoformat(t), !.started_at = isoformat(t)]
  ELSE [r EXCEPT !.status = status]

\* mutant: the terminal UPDATE sets status only (exit_code and completed_at
\* would follow in a statement of their own)
UpdateRow_StatusOnly(r, status, exit_code, t) == [r EXCEPT !.status = status]

\* mutant: the three-column UPDATE runs for every status
UpdateRow_AlwaysStamp(r, status, exit_code, t) ==
  [r EXCEPT !.status = status, !.exit_code = exit_code,
            !.completed_at = isoformat(t)]

UpdateRow(r, status, exit_code, t) ==
  IF status \in {"completed", "failed"}
  THEN [r EXCEPT !.status = status, !.exit_code = exit_code,
                 !.completed_at = isoformat(t)]
  ELSE [r EXCEPT !.status = status]

Update(tbl, process_id, status, exit_code, t) ==
  { IF r.process_id = process_id THEN UpdateRow(r, status, exit_code, t) ELSE r
    : r \in tbl }

update_process_status ==
  \E process_id \in ProcessIds, c \in UpdateCalls :
   LET status == c[1]
       exit_code == c[2] IN
    /\ processes' = Update(processes, process_id, status, exit_code, now)
    /\ ret' = [NoRet EXCEPT !.op = "update_process_status",
                            !.process_id = process_id, !.status = status,
                            !.exit_code = exit_code]
    /\ UNCHANGED <<now, other>>

\* ------------------------------------------------------------ get_process
\* SELECT * FROM processes WHERE process_id = ?; fetchone(): the row or None
Select(tbl, process_id) == { r \in tbl : r.process_id = process_id }

get_process ==
  \E process_id \in ProcessIds :
    /\ ret' = [NoRet EXCEPT !.op = "get_process", !.process_id = process_id,
                            !.row = Select(processes, process_id)]
    /\ UNCHANGED <<processes, now, other>>

\* --------------------------------------------------------- list_processes
\* the WHERE clause built from the truthy / non-None arguments
Matches(r, status, streams) ==
  /\ TruthyStr(status) => r.status = status
  /\ streams # NullInt => r.has_separate_streams = (IF streams # 0 THEN 1 ELSE 0)

\* all sequences over S without repetition, of length Cardinality(S)
Perms(S) ==
  { q \in [1..Cardinality(S) -> S] : \A i, j \in 1..Cardinality(S) : i # j => q[i] # q[j] }

\* mutant: ORDER BY started_at ASC
OrderByStartedDesc_Asc(S) ==
  { q \in Perms(S) :
      \A i, j \in 1..Cardinality(S) : i < j => ~TextLt(q[j].started_at, q[i].started_at) }

\* ORDER BY started_at DESC: SQLite leaves the order of equal keys open
OrderByStartedDesc(S) ==
  { q \in Perms(S) :
      \A i, j \in 1..Cardinality(S) : i < j => ~TextLt(q[i].started_at, q[j].started_at) }

\* LIMIT ? is appended only when `limit` is truthy
ApplyLimit(q, limit) ==
  IF TruthyInt(limit) /\ limit < Len(q) THEN SubSeq(q, 1, limit) ELSE q

ListResults(tbl, status, limit, streams) ==
  { ApplyLimit(q, limit) :
      q \in OrderByStartedDesc({ r \in tbl : Matches(r, status, streams) }) }

list_processes ==
  \E c \in ListCalls :
   LET status == c[1]
       limit == c[2]
       streams == c[3] IN
    \E q \in ListResults(processes, status, limit, streams) :
      /\ ret' = [NoRet EXCEPT !.op = "list_processes", !.status = status,
                              !.limit = limit, !.streams = streams, !.rows = q]
      /\ UNCHANGED <<processes, now, other>>

\* --------------------------------------------------------- delete_process
\* mutant: DELETE without the WHERE clause
Delete_All(tbl, process_id) == IF HasKey(tbl, process_id) THEN {} ELSE tbl

\* mutant: the row is kept and marked instead of being deleted
Delete_Soft(tbl, process_id) ==
  { IF r.process_id = process_id THEN [r EXCEPT !.status = "failed"] ELSE r : r \in tbl }

Delete(tbl, process_id) == { r \in tbl : r.process_id # process_id }

delete_process ==
  \E process_id \in ProcessIds :
    /\ processes' = Delete(processes, process_id)
    /\ ret' = [NoRet EXCEPT !.op = "delete_process", !.process_id = process_id,
                            !.count = Cardinality(processes) - Cardinality(processes'),
                            !.deleted = (Cardinality(processes) - Cardinality(processes') > 0)]
    /\ removed' = Record(removed, processes \ processes')
    /\ UNCHANGED <<now, columns, th, wlock, open, fmt>>

\* -------------------------------------------------- cleanup_old_processes
\* cutoff_iso = fromtimestamp(now.timestamp() - days * 86400).isoformat()
CutoffIso(t, days) == isoformat(t - days * DaySeconds)

\* mutant: the status condition is missing from the WHERE clause
Expired_AnyStatus(r, cutoff_iso) == SqlLt(r.completed_at, cutoff_iso)

\* mutant: completed_at <= ?
Expired_Le(r, cutoff_iso) ==
  /\ r.status \in {"completed", "failed"}
  /\ r.completed_at # NullText
  /\ ~TextLt(cutoff_iso, r.completed_at)

\* DELETE FROM processes WHERE status IN ('completed','failed') AND completed_at < ?
Expired(r, cutoff_iso) ==
  /\ r.status \in {"completed", "failed"}
  /\ SqlLt(r.completed_at, cutoff_iso)

Cleanup(tbl, cutoff_iso) == { r \in tbl : ~Expired(r, cutoff_iso) }

cleanup_old_processes ==
  \E days \in Days :
    LET cutoff_iso == CutoffIso(now, days) IN
      /\ processes' = Cleanup(processes, cutoff_iso)
      /\ ret' = [NoRet EXCEPT !.op = "cleanup_old_processes", !.days = days,
                              !.cutoff = cutoff_iso,
                              !.count = Cardinality(processes) - Cardinality(processes')]
      /\ removed' = Record(removed, processes \ processes')
      /\ UNCHANGED <<now, columns, th, wlock, open, fmt>>

\* ------------------------------------------------------------------- Next
Next ==
  \/ Tick
  \/ register_process
  \/ update_process_status
  \/ get_process
  \/ list_processes
  \/ delete_process
  \/ cleanup_old_processes

Spec == Init /\ [][Next]_vars

\* ===================================================================
\* _init_database: the schema upgrade
\* ===================================================================
\* A database file is the columns of its table (none: no table yet) and the
\* rows, each a record over those columns.
\* CREATE TABLE IF NOT EXISTS processes (...)
CreateTable(db) ==
  IF db.columns = {} THEN [db EXCEPT !.columns = BaseColumns] ELSE db

\* ALTER TABLE processes ADD COLUMN c [DEFAULT v]: every row gets the default;
\* a column that exists makes the statement fail
AlterAddColumn(db, c, default) ==
  IF c \in db.columns
  THEN [db EXCEPT !.error = "OperationalError"]
  ELSE [columns |-> db.columns \cup {c},
        tbl |-> { r @@ (c :> default) : r \in db.tbl },
        error |-> db.error]

\* mutant: ALTER TABLE without the `not in columns` test
AddIfMissing_Always(db, seen, c, default) ==
  IF db.error # "" THEN db ELSE AlterAddColumn(db, c, default)

\* if c not in columns: ALTER TABLE ... (skipped once a statement has raised)
AddIfMissing(db, seen, c, default) ==
  IF db.error # "" \/ c \in seen THEN db ELSE AlterAddColumn(db, c, default)

InitDatabase(cols, tbl) ==
  LET d0 == CreateTable([columns |-> cols, tbl |-> tbl, error |-> ""])
      seen == d0.columns        \* PRAGMA table_info(processes)
      d1 == AddIfMissing(d0, seen, "stdout_log", NullStr)
      d2 == AddIfMissing(d1, seen, "stderr_log", NullStr)
  IN AddIfMissing(d2, seen, "has_separate_streams", 0)

init_database ==
  LET db == InitDatabase(columns, processes) IN
    /\ columns' = db.columns
    /\ processes' = db.tbl
    /\ ret' = [NoRet EXCEPT !.op = "_init_database", !.error = db.error]
    /\ UNCHANGED <<now, th, wlock, open, fmt, removed>>

\* the database files a registry is opened on: no table; the table of an
\* older version (or of an upgrade that stopped after one or two ALTERs),
\* whose rows know no stream logs; the current table
Shapes ==
  { {}, BaseColumns, BaseColumns \cup {"stdout_log"},
    BaseColumns \cup {"stdout_log", "stderr_log"}, AllColumns }

OldArgs ==
  [command |-> "c0", pid |-> 1, log_file |-> "out.log",
   working_dir |-> NullStr, stdout_log |-> NullStr, stderr_log |-> NullStr]

Completed(r, t) == UpdateRow(r, "completed", 0, t)

\* the rows process_id can have in a file with columns cols
StoredRows(process_id, cols) ==
  LET t == Epoch * DaySeconds
      args == IF cols = AllColumns THEN RegArgs \cup {OldArgs} ELSE {OldArgs}
      full == { NewRow(process_id, a, t) : a \in args }
                \cup { Completed(NewRow(process_id, a, t), t) : a \in args }
  IN { [c \in cols |-> r[c]] : r \in full }

Tables(cols) ==
  IF cols = {} THEN {{}}
  ELSE { a \cup b : a \in {{}} \cup { {r} : r \in StoredRows("p1", cols) },
                    b \in {{}} \cup { {r} : r \in StoredRows("p2", cols) } }

InitSchema ==
  /\ columns \in Shapes
  /\ processes \in Tables(columns)
  /\ now = Epoch * DaySeconds
  /\ ret = NoRet
  /\ th = NoCalls
  /\ wlock = "none"
  /\ open = {}
  /\ removed = NoHistory
  /\ fmt = NoFmt

\* a registry exists once _init_database has run on the file
NextSchema ==
  \/ init_database
  \/ (columns = AllColumns /\ register_process)
  \/ (columns = AllColumns /\ update_process_status)

SpecSchema == InitSchema /\ [][NextSchema]_vars

\* ------------------------------------------------ re-use of a process_id
\* a registry that already holds records, running or completed, with the
\* history of the rows removed from it kept
ReuseRows(process_id) ==
  LET r == NewRow(process_id, OldArgs, Epoch * DaySeconds)
  IN { r, Completed(r, Epoch * DaySeconds) }

ReuseTables ==
  { a \cup b : a \in {{}} \cup { {r} : r \in ReuseRows("p1") },
               b \in {{}} \cup { {r} : r \in ReuseRows("p2") } }

InitReuse ==
  /\ processes \in ReuseTables
  /\ now = Epoch * DaySeconds
  /\ ret = NoRet
  /\ columns = AllColumns
  /\ th = NoCalls
  /\ wlock = "none"
  /\ open = {}
  /\ fmt = NoFmt
  /\ removed = EmptyHistory

NextReuse ==
  \/ Tick
  \/ register_process
  \/ delete_process
  \/ cleanup_old_processes

SpecReuse == InitReuse /\ [][NextReuse]_vars

\* ===================================================================
\* Concurrent callers: _get_connection and SQLite's write lock
\* ===================================================================
\* Each caller runs one registry method, step by step:
\*   idle -> connected    sqlite3.connect()
\*        -> configured   PRAGMA journal_mode=WAL, then `yield conn`
\*        -> executed     conn.execute(statement); a writing statement takes
\*                        the write lock and its change is pending
\*        -> committed    conn.commit() publishes the change, frees the lock
\*        -> returned     `finally: conn.close()`
\*   or -> raised, when a step raises.
\* A SELECT sees the committed rows only (WAL snapshot).
Callers == {"a", "b", "c", "r"}
WriteOps == {"register_process", "update_process_status"}
ReadOps == {"get_process", "list_processes"}

ArgsA == CHOOSE a \in RegArgs : a.command = "c1"
ArgsB == CHOOSE a \in RegArgs : a.command = "c2"

NoCall ==
  [op |-> "none", process_id |-> NullStr, args |-> NoArgs, status |-> NullStr,
   exit_code |-> NullInt]

\* the calls of each caller: a and b register, c updates the stored p0,
\* r reads
CallsOf(c) ==
  CASE c = "a" -> { [NoCall EXCEPT !.op = "register_process", !.process_id = id,
                                    !.args = ArgsA] : id \in ProcessIds }
    [] c = "b" -> { [NoCall EXCEPT !.op = "register_process", !.process_id = id,
                                    !.args = ArgsB] : id \in ProcessIds }
    [] c = "c" -> { [NoCall EXCEPT !.op = "update_process_status", !.process_id = "p0",
                                    !.status = u[1], !.exit_code = u[2]]
                    : u \in { <<"completed", 0>>, <<"failed", 1>> } }
    [] c = "r" -> { [NoCall EXCEPT !.op = "get_process", !.process_id = "p0"],
                    [NoCall EXCEPT !.op = "list_processes"] }

\* the record stored before the callers start
RowP0 == NewRow("p0", OldArgs, Epoch * DaySeconds)

Caller(call) ==
  [call |-> call, pc |-> "idle", pending |-> {}, seen |-> <<>>, error |-> ""]

InitConc ==
  /\ processes = {RowP0}
  /\ now = Epoch * DaySeconds
  /\ ret = NoRet
  /\ columns = AllColumns
  /\ \E ca \in CallsOf("a"), cb \in CallsOf("b"), cc \in CallsOf("c"), cr \in CallsOf("r") :
       th = [c \in Callers |->
               Caller(CASE c = "a" -> ca [] c = "b" -> cb [] c = "c" -> cc [] c = "r" -> cr)]
  /\ wlock = "none"
  /\ open = {}
  /\ removed = NoHistory
  /\ fmt = NoFmt

\* conn = sqlite3.connect(self.db_path, timeout=10.0)
Connect(c) ==
  /\ th[c].pc = "idle"
  /\ th' = [th EXCEPT ![c].pc = "connected"]
  /\ open' = open \cup {c}
  /\ UNCHANGED <<processes, now, ret, columns, wlock, fmt, removed>>

\* conn.execute("PRAGMA journal_mode=WAL"); try: yield conn
Configure(c) ==
  /\ th[c].pc = "connected"
  /\ th' = [th EXCEPT ![c].pc = "configured"]
  /\ UNCHANGED <<processes, now, ret, columns, wlock, open, fmt, removed>>

\* mutant: a writing statement does not wait for the write lock
WriteLockFree_NoLock(c) == TRUE

\* the busy handler (timeout=10.0) lets a writing statement wait until no
\* other connection holds the write lock
WriteLockFree(c) == wlock = "none"

\* the statement of a writing method, run on the committed rows
Statement(call, tbl, t) ==
  IF call.op = "register_process"
  THEN Insert(tbl, call.process_id, call.args, t)
  ELSE [tbl |-> Update(tbl, call.process_id, call.status, call.exit_code, t),
        error |-> ""]

\* conn.execute(INSERT / UPDATE): on an error the exception goes through
\* `finally: conn.close()`, which also rolls back
ExecuteWrite(c) ==
  /\ th[c].pc = "configured"
  /\ th[c].call.op \in WriteOps
  /\ WriteLockFree(c)
  /\ LET res == Statement(th[c].call, processes, now) IN
       IF res.error # ""
       THEN /\ th' = [th EXCEPT ![c].pc = "raised", ![c].error = res.error]
            /\ open' = open \ {c}
            /\ UNCHANGED wlock
       ELSE /\ th' = [th EXCEPT ![c].pc = "executed", ![c].pending = res.tbl]
            /\ wlock' = c
            /\ UNCHANGED open
  /\ UNCHANGED <<processes, now, ret, columns, fmt, removed>>

\* conn.execute(SELECT ...): get_process reads the row, list_processes all rows
ExecuteRead(c) ==
  /\ th[c].pc = "configured"
  /\ th[c].call.op \in ReadOps
  /\ \E q \in (IF th[c].call.op = "get_process"
               THEN OrderByStartedDesc(Select(processes, th[c].call.process_id))
               ELSE ListResults(processes, NullStr, NullInt, NullInt)) :
       th' = [th EXCEPT ![c].pc = "executed", ![c].seen = q]
  /\ UNCHANGED <<processes, now, ret, columns, wlock, open, fmt, removed>>

\* conn.commit()
Commit(c) ==
  /\ th[c].pc = "executed"
  /\ th[c].call.op \in WriteOps
  /\ processes' = th[c].pending
  /\ wlock' = "none"
  /\ th' = [th EXCEPT ![c].pc = "committed"]
  /\ UNCHANGED <<now, ret, columns, open, fmt, removed>>

\* finally: conn.close()
Close(c) ==
  /\ \/ th[c].pc = "committed"
     \/ th[c].pc = "executed" /\ th[c].call.op \in ReadOps
  /\ th' = [th EXCEPT ![c].pc = "returned"]
  /\ open' = open \ {c}
  /\ UNCHANGED <<processes, now, ret, columns, wlock, fmt, removed>>

\* the reader calls again
ReadAgain(c) ==
  /\ c = "r"
  /\ th[c].pc = "returned"
  /\ \E call \in CallsOf(c) : th' = [th EXCEPT ![c] = Caller(call)]
  /\ UNCHANGED <<processes, now, ret, columns, wlock, open, fmt, removed>>

NextConc ==
  \E c \in Callers :
    \/ Connect(c)
    \/ Configure(c)
    \/ ExecuteWrite(c)
    \/ ExecuteRead(c)
    \/ Commit(c)
    \/ Close(c)
    \/ ReadAgain(c)

SpecConc == InitConc /\ [][NextConc]_vars

\* ------------------------------------------------- the steps that can raise
\* sqlite3.connect raises: there is no connection
ConnectFail(c) ==
  /\ th[c].pc = "idle"
  /\ th' = [th EXCEPT ![c].pc = "raised", ![c].error = "OperationalError"]
  /\ UNCHANGED <<processes, now, ret, columns, wlock, open, fmt, removed>>

\* the PRAGMA raises (e.g. "file is not a database"): it runs before `try`,
\* so the exception leaves _get_connection without conn.close()
ConfigureFail(c) ==
  /\ th[c].pc = "connected"
  /\ th' = [th EXCEPT ![c].pc = "raised", ![c].error = "DatabaseError"]
  /\ UNCHANGED <<processes, now, ret, columns, wlock, open, fmt, removed>>

\* the statement raises inside the with block: finally: conn.close()
ExecuteFail(c) ==
  /\ th[c].pc = "configured"
  /\ th' = [th EXCEPT ![c].pc = "raised", ![c].error = "OperationalError"]
  /\ open' = open \ {c}
  /\ UNCHANGED <<processes, now, ret, columns, wlock, fmt, removed>>

\* conn.commit() raises: conn.close() rolls the pending change back
CommitFail(c) ==
  /\ th[c].pc = "executed"
  /\ th[c].call.op \in WriteOps
  /\ th' = [th EXCEPT ![c].pc = "raised", ![c].error = "OperationalError",
                      ![c].pending = {}]
  /\ wlock' = "none"
  /\ open' = open \ {c}
  /\ UNCHANGED <<processes, now, ret, columns, fmt, removed>>

\* a connection nobody closed is closed when the interpreter frees the
\* object, some time after the exception has been dropped
GarbageCollect(c) ==
  /\ th[c].pc = "raised"
  /\ c \in open
  /\ open' = open \ {c}
  /\ UNCHANGED <<processes, now, ret, columns, th, wlock, fmt, removed>>

NextConn ==
  \E c \in Callers :
    \/ Connect(c)
    \/ Configure(c)
    \/ ExecuteWrite(c)
    \/ ExecuteRead(c)
    \/ Commit(c)
    \/ Close(c)
    \/ ReadAgain(c)
    \/ ConnectFail(c)
    \/ ConfigureFail(c)
    \/ ExecuteFail(c)
    \/ CommitFail(c)
    \/ GarbageCollect(c)

SpecConn == InitConc /\ [][NextConn]_vars

\* ===================================================================
\* format_process (src/mcp_server.py): log path resolution
\* ===================================================================
\* A path string is known by its components: Split gives, for each string
\* the model uses, whether it starts with "/" and its "/"-separated pieces
\* as written (with "." pieces and ".." pieces).
Split(s) ==
  CASE s = "out.log"            -> [abs |-> FALSE, parts |-> <<"out.log">>]
    [] s = "out.stdout.log"     -> [abs |-> FALSE, parts |-> <<"out.stdout.log">>]
    [] s = "err.log"            -> [abs |-> FALSE, parts |-> <<"err.log">>]
    [] s = "../logs/out.log"    -> [abs |-> FALSE, parts |-> <<"..", "logs", "out.log">>]
    [] s = "/tmp/abs.log"       -> [abs |-> TRUE, parts |-> <<"tmp", "abs.log">>]
    [] s = "/tmp/./abs.log"     -> [abs |-> TRUE, parts |-> <<"tmp", ".", "abs.log">>]
    [] s = "/home/link/out.log" -> [abs |-> TRUE, parts |-> <<"home", "link", "out.log">>]
    [] s = "/home/x"            -> [abs |-> TRUE, parts |-> <<"home", "x">>]
    [] s = "/home/link"         -> [abs |-> TRUE, parts |-> <<"home", "link">>]

\* the file system the resolver runs in: its current directory, and one
\* symbolic link, /home/link -> /home/x
Cwd == <<"srv", "app">>
Link == <<"home", "link">>
LinkTarget == <<"home", "x">>

\* resolve_log_path returns None
NonePath == [abs |-> FALSE, parts |-> <<>>]

\* pathlib.Path(s): empty and "." pieces are dropped, ".." pieces are kept
PurePath(raw) ==
  [abs |-> raw.abs, parts |-> SelectSeq(raw.parts, LAMBDA c : c # "" /\ c # ".")]

\* Path(a) / b
Join(a, b) == IF b.abs THEN b ELSE [abs |-> a.abs, parts |-> a.parts \o b.parts]

\* Path.resolve(): made absolute against the current directory, then walked
\* piece by piece, ".." leaving the directory reached and a link followed
RECURSIVE Walk(_, _)
Walk(done, rest) ==
  IF rest = <<>> THEN done
  ELSE LET c == Head(rest) IN
    IF c = ".."
    THEN Walk(IF done = <<>> THEN <<>> ELSE SubSeq(done, 1, Len(done) - 1), Tail(rest))
    ELSE IF Append(done, c) = Link
    THEN Walk(<<>>, LinkTarget \o Tail(rest))
    ELSE Walk(Append(done, c), Tail(rest))

Resolve(p) ==
  [abs |-> TRUE, parts |-> Walk(<<>>, IF p.abs THEN p.parts ELSE Cwd \o p.parts)]

\* mutant: a relative path is always resolved against the current directory
resolve_log_path_IgnoreWorkingDir(log_path, working_dir) ==
  IF ~TruthyStr(log_path) THEN NonePath
  ELSE LET path == PurePath(Split(log_path)) IN
    IF path.abs THEN path ELSE Resolve(path)

resolve_log_path(log_path, working_dir) ==
  IF ~TruthyStr(log_path) THEN NonePath
  ELSE LET path == PurePath(Split(log_path)) IN
    IF path.abs THEN path
    ELSE IF TruthyStr(working_dir)
    THEN Resolve(Join(PurePath(Split(working_dir)), path))
    ELSE Resolve(path)

\* the keys of result["logs"] and the column each is resolved from
LogColumn(k) ==
  CASE k = "combined" -> "log_file"
    [] k = "stdout"   -> "stdout_log"
    [] k = "stderr"   -> "stderr_log"

LogKeys(process) ==
  {"combined"}
    \cup (IF TruthyStr(process.stdout_log) THEN {"stdout"} ELSE {})
    \cup (IF TruthyStr(process.stderr_log) THEN {"stderr"} ELSE {})

format_process(process) ==
  [process_id |-> process.process_id, command |-> process.command,
   status |-> process.status, pid |-> process.pid,
   started_at |-> process.started_at, completed_at |-> process.completed_at,
   exit_code |-> process.exit_code, working_dir |-> process.working_dir,
   logs |-> [k \in LogKeys(process) |->
               resolve_log_path(process[LogColumn(k)], process.working_dir)],
   has_separate_streams |-> process.has_separate_streams]

\* the rows format_process is applied to
FmtLogFiles ==
  {"out.log", "../logs/out.log", "/tmp/abs.log", "/tmp/./abs.log", "/home/link/out.log"}
FmtStdoutLogs == {NullStr, "out.stdout.log", "/tmp/abs.log"}
FmtStderrLogs == {NullStr, "err.log"}
FmtWorkingDirs == {NullStr, "/home/x", "/home/link"}

FmtRows ==
  { NewRow("p1", [command |-> "c1", pid |-> 1, log_file |-> l, working_dir |-> w,
                  stdout_log |-> o, stderr_log |-> e], Epoch * DaySeconds)
    : l \in FmtLogFiles, w \in FmtWorkingDirs, o \in FmtStdoutLogs, e \in FmtStderrLogs }

InitResolve ==
  /\ processes = {}
  /\ now = Epoch * DaySeconds
  /\ ret = NoRet
  /\ columns = AllColumns
  /\ th = NoCalls
  /\ wlock = "none"
  /\ open = {}
  /\ removed = NoHistory
  /\ \E process \in FmtRows : fmt = [pc |-> "call", process |-> process]

FormatProcess ==
  /\ fmt.pc = "call"
  /\ fmt' = [pc |-> "done", process |-> fmt.process,
             result |-> format_process(fmt.process)]
  /\ UNCHANGED <<processes, now, ret, columns, th, wlock, open, removed>>

NextResolve == FormatProcess

SpecResolve == InitResolve /\ [][NextResolve]_vars

\* ===================================================================
\* Claims
\* ===================================================================
Terminal == {"completed", "failed"}

\* the step is a call of method `op` (Tick is the only step that moves `now`)
Step(op) == now' = now /\ ret'.op = op

\* the day a stored timestamp text denotes
DayOf(text) == text[1] * 10 + text[2]

\* C1: once a record is completed or failed, a later update_process_status
\* call for its process_id leaves the record as it is (status, completed_at
\* and exit_code included).
C1_TerminalIsFinal ==
  [][\A r \in processes :
       (r.status \in Terminal /\ Step("update_process_status")
          /\ ret'.process_id = r.process_id) => r \in processes']_vars

\* C2: every stored record has completed_at and exit_code both null if and
\* only if its status is running.
C2_NullIffRunning ==
  \A r \in processes :
    (r.completed_at = NullText /\ r.exit_code = NullInt) <=> r.status = "running"

\* C3: after register_process of an id that was not in the table, get_process
\* finds exactly one record: running, no completed_at, no exit_code, and the
\* command, pid, log paths and working_dir of the call.
C3_RegisterThenGet ==
  [][(Step("register_process") /\ ~HasKey(processes, ret'.process_id)) =>
       /\ ret'.error = ""
       /\ Cardinality(Select(processes', ret'.process_id)) = 1
       /\ \A r \in Select(processes', ret'.process_id) :
            /\ r.status = "running"
            /\ r.completed_at = NullText
            /\ r.exit_code = NullInt
            /\ r.command = ret'.args.command
            /\ r.pid = ret'.args.pid
            /\ r.log_file = ret'.args.log_file
            /\ r.stdout_log = ret'.args.stdout_log
            /\ r.stderr_log = ret'.args.stderr_log
            /\ r.working_dir = ret'.args.working_dir]_vars

\* C3 witness: a registration with a working_dir went through while another
\* record was already stored
C3_Witness ==
  /\ ret.op = "register_process"
  /\ ret.error = ""
  /\ ret.args.working_dir # NullStr
  /\ HasKey(processes, ret.process_id)
  /\ Cardinality(processes) = 2

\* C4: register_process of an id that is in the table fails with the
\* duplicate-key error (sqlite3.IntegrityError) and changes no record.
C4_DuplicateRegister ==
  [][(Step("register_process") /\ HasKey(processes, ret'.process_id)) =>
       (ret'.error = "IntegrityError" /\ processes' = processes)]_vars

\* C4 witness: a duplicate registration was refused and the record it named,
\* already terminal and registered with other arguments, is still there
C4_Witness ==
  /\ ret.op = "register_process"
  /\ ret.error = "IntegrityError"
  /\ \E r \in processes :
       /\ r.process_id = ret.process_id
       /\ r.status \in Terminal
       /\ r.command # ret.args.command

\* C5: update_process_status of an id that is not in the table reports
\* NotFound and changes nothing.
C5_UpdateMissingNotFound ==
  [][(Step("update_process_status") /\ ~HasKey(processes, ret'.process_id)) =>
       (ret'.error = "NotFound" /\ processes' = processes)]_vars

\* C6: list_processes(status="running") returns no record with a non-null
\* completed_at.
C6_ListRunningNoCompletedAt ==
  (ret.op = "list_processes" /\ ret.status = "running") =>
     \A i \in 1..Len(ret.rows) : ret.rows[i].completed_at = NullText

\* C7: list_processes with a limit N >= 0 returns at most N records.
C7_LimitCaps ==
  (ret.op = "list_processes" /\ ret.limit # NullInt) => Len(ret.rows) <= ret.limit

\* the rows of q, each exactly once, are the set S, newest started_at first
ExactlyNewestFirst(q, S) ==
  /\ Len(q) = Cardinality(S)
  /\ { q[i] : i \in 1..Len(q) } = S
  /\ \A i, j \in 1..Len(q) :
       i < j => DayOf(q[i].started_at) >= DayOf(q[j].started_at)

\* C8 (as claimed): list_processes without limit returns every stored record
\* exactly once, newest first; given a status filter, exactly the records
\* with that status.
C8_ListExactAsClaimed ==
  (ret.op = "list_processes" /\ ret.limit = NullInt /\ ret.streams = NullInt) =>
     ExactlyNewestFirst(ret.rows,
        { r \in processes : ret.status # NullStr => r.status = ret.status })

\* C8 (amended): the same, where an empty status string counts as no filter.
C8_ListExact ==
  (ret.op = "list_processes" /\ ret.limit = NullInt /\ ret.streams = NullInt) =>
     ExactlyNewestFirst(ret.rows,
        { r \in processes : ret.status \notin {NullStr, ""} => r.status = ret.status })

\* C8 witness: an unfiltered list of two records started on different days
C8_Witness ==
  /\ ret.op = "list_processes"
  /\ ret.limit = NullInt /\ ret.streams = NullInt /\ ret.status = NullStr
  /\ Len(ret.rows) = 2
  /\ ret.rows[1].started_at # ret.rows[2].started_at

\* C9: cleanup_old_processes keeps every record whose status is running.
C9_CleanupKeepsRunning ==
  [][Step("cleanup_old_processes") =>
       \A r \in processes : r.status = "running" => r \in processes']_vars

\* C9 witness: after a cleanup the table holds a running record that went
\* through a terminal status and whose completed_at is older than the cutoff
C9_Witness ==
  /\ ret.op = "cleanup_old_processes"
  /\ \E r \in processes :
       /\ r.status = "running"
       /\ r.completed_at # NullText
       /\ DayOf(r.completed_at) < DayOf(ret.cutoff)

\* C10: cleanup_old_processes(days) removes exactly the completed or failed
\* records whose completed_at is before now - days, leaves the others as they
\* are, returns how many it removed, and get_process / list_processes no
\* longer find the removed ones.
C10_CleanupExact ==
  [][Step("cleanup_old_processes") =>
       LET gone == { r \in processes :
                       /\ r.status \in Terminal
                       /\ r.completed_at # NullText
                       /\ DayOf(r.completed_at) * DaySeconds
                            < now - ret'.days * DaySeconds }
       IN /\ processes' = processes \ gone
          /\ ret'.count = Cardinality(gone)
          /\ \A r \in gone :
               /\ Select(processes', r.process_id) = {}
               /\ \A q \in ListResults(processes', NullStr, NullInt, NullInt) :
                    \A i \in 1..Len(q) : q[i].process_id # r.process_id]_vars

\* C10 witness: a cleanup removed one record and kept a terminal record whose
\* completed_at equals the cutoff
C10_Witness ==
  /\ ret.op = "cleanup_old_processes"
  /\ ret.count = 1
  /\ \E r \in processes : r.status \in Terminal /\ r.completed_at = ret.cutoff

\* C11: delete_process returns true exactly when a record with the id was
\* stored; then that record and no other is removed and get_process /
\* list_processes no longer find it; otherwise it returns false, raises
\* nothing and leaves the table as it is.
C11_DeleteExact ==
  [][Step("delete_process") =>
       LET id == ret'.process_id
           had == HasKey(processes, id)
       IN /\ ret'.deleted = had
          /\ ret'.error = ""
          /\ processes' = { r \in processes : r.process_id # id }
          /\ ~had => processes' = processes
          /\ Select(processes', id) = {}
          /\ \A q \in ListResults(processes', NullStr, NullInt, NullInt) :
               \A i \in 1..Len(q) : q[i].process_id # id]_vars

\* C11 witness: a delete returned true and the other record is still stored
C11_Witness ==
  /\ ret.op = "delete_process"
  /\ ret.deleted
  /\ \E r \in processes : r.process_id # ret.process_id

\* C12: update_process_status changes neither command, log_file, stdout_log,
\* stderr_log, working_dir nor started_at of any record, and adds or removes
\* no record.
C12_UpdateFrame ==
  [][Step("update_process_status") =>
       /\ Cardinality(processes') = Cardinality(processes)
       /\ \A r \in processes : \E u \in processes' :
            /\ u.process_id = r.process_id
            /\ u.command = r.command
            /\ u.log_file = r.log_file
            /\ u.stdout_log = r.stdout_log
            /\ u.stderr_log = r.stderr_log
            /\ u.working_dir = r.working_dir
            /\ u.started_at = r.started_at]_vars

\* C12 witness: a terminal update was applied on a later day than the record
\* was started, next to another record
C12_Witness ==
  /\ ret.op = "update_process_status"
  /\ ret.status \in Terminal
  /\ Cardinality(processes) = 2
  /\ \E r \in processes :
       /\ r.process_id = ret.process_id
       /\ r.status = ret.status
       /\ r.completed_at # r.started_at

\* C17: the status of every stored record is running, completed or failed.
C17_StatusEnumerated ==
  \A r \in processes : r.status \in {"running", "completed", "failed"}

\* C20: update_process_status(id, "running") changes the status field of the
\* record and nothing else: completed_at and exit_code keep their values.
C20_RunningUpdateFrame ==
  [][(Step("update_process_status") /\ ret'.status = "running") =>
       processes' = { IF r.process_id = ret'.process_id
                      THEN [r EXCEPT !.status = "running"] ELSE r
                      : r \in processes }]_vars

\* C20 witness: update to running, called with an exit code, on a record
\* that had completed with another exit code: the old values are still there
C20_Witness ==
  /\ ret.op = "update_process_status"
  /\ ret.status = "running"
  /\ ret.exit_code = 1
  /\ \E r \in processes :
       /\ r.process_id = ret.process_id
       /\ r.status = "running"
       /\ r.exit_code = 0
       /\ r.completed_at # NullText

\* C15: _init_database raises nothing; run on the current table it leaves
\* list_processes() as it was; run on an older table it keeps every record,
\* field by field, and gives the new fields null / false.
C15_InitIdempotentLossless ==
  [][Step("_init_database") =>
       /\ ret'.error = ""
       /\ columns' = AllColumns
       /\ columns = AllColumns =>
            /\ processes' = processes
            /\ ListResults(processes', NullStr, NullInt, NullInt)
                 = ListResults(processes, NullStr, NullInt, NullInt)
       /\ Cardinality(processes') = Cardinality(processes)
       /\ \A r \in processes : \E u \in processes' :
            /\ DOMAIN u = AllColumns
            /\ \A c \in columns : u[c] = r[c]
            /\ \A c \in AddedColumns \ columns :
                 IF c = "has_separate_streams" THEN u[c] = 0 ELSE u[c] = NullStr]_vars

\* C15 witness: after _init_database the table holds a record of the older
\* version, completed, with the new fields, next to a record registered since
C15_Witness ==
  /\ ret.op = "_init_database"
  /\ \E r \in processes :
       /\ r.command = "c0"
       /\ r.status = "completed"
       /\ r.has_separate_streams = 0
  /\ \E r \in processes : r.command = "c2" /\ r.stdout_log # NullStr

\* C16: has_separate_streams of a record is true exactly when its stdout_log
\* or its stderr_log is non-null, for registered and for upgraded records.
C16_SeparateStreamsIff ==
  \A r \in processes :
    "has_separate_streams" \in DOMAIN r =>
      (r.has_separate_streams = 1 <=> (r.stdout_log # NullStr \/ r.stderr_log # NullStr))

\* C16 witness: an upgraded record without stream logs and a registered
\* record with a stdout log only
C16_Witness ==
  /\ ret.op = "register_process"
  /\ ret.error = ""
  /\ \E r \in processes :
       r.command = "c0" /\ r.has_separate_streams = 0 /\ r.stdout_log = NullStr
  /\ \E r \in processes :
       /\ r.process_id = ret.process_id
       /\ r.has_separate_streams = 1
       /\ r.stdout_log # NullStr
       /\ r.stderr_log = NullStr

\* the (status, exit_code, completed_at) of a row
Triple(r) == <<r.status, r.exit_code, r.completed_at>>

\* the callers are through with their calls
Finished(S) == \A c \in S : th[c].pc \in {"returned", "raised"}

\* C13: a get_process or list_processes running next to the terminal
\* update of p0 sees, for p0, the three fields as they were before the
\* update or as the update sets them, never a mix.
C13_AtomicTriple ==
  \A i \in 1..Len(th["r"].seen) :
    th["r"].seen[i].process_id = "p0" =>
      Triple(th["r"].seen[i])
        \in { Triple(RowP0),
              <<th["c"].call.status, th["c"].call.exit_code, isoformat(now)>> }

\* C13 witness: the reader read p0 while the update was executed and not yet
\* committed, and saw the old fields
C13_Witness ==
  /\ th["c"].pc = "executed"
  /\ th["r"].pc = "executed"
  /\ wlock = "c"
  /\ Len(th["r"].seen) > 0
  /\ \E i \in 1..Len(th["r"].seen) : th["r"].seen[i] = RowP0

\* C14: when a and b register two distinct new ids while c updates p0, then
\* in every interleaving none of the three raises, and once they are through
\* list_processes() shows both new records and the updated p0.
C14_NoLostUpdate ==
  th["a"].call.process_id # th["b"].call.process_id =>
    /\ \A c \in {"a", "b", "c"} : th[c].pc # "raised"
    /\ Finished({"a", "b", "c"}) =>
         \A q \in ListResults(processes, NullStr, NullInt, NullInt) :
           /\ Len(q) = 3
           /\ \E i \in 1..3 : /\ q[i].process_id = th["a"].call.process_id
                              /\ q[i].command = th["a"].call.args.command
           /\ \E i \in 1..3 : /\ q[i].process_id = th["b"].call.process_id
                              /\ q[i].command = th["b"].call.args.command
           /\ \E i \in 1..3 : /\ q[i].process_id = "p0"
                              /\ q[i].status = th["c"].call.status
                              /\ q[i].exit_code = th["c"].call.exit_code

\* C14 witness: the three writers have returned, having registered distinct ids
C14_Witness ==
  /\ th["a"].call.process_id # th["b"].call.process_id
  /\ \A c \in {"a", "b", "c"} : th[c].pc = "returned"
  /\ Cardinality(processes) = 3

\* C19: a caller that has returned or raised has no open connection.
C19_ConnectionReleased ==
  \A c \in Callers : th[c].pc \in {"returned", "raised"} => c \notin open

\* the pieces of a path as written, without its "." and empty pieces
RECURSIVE Lexical(_)
Lexical(parts) ==
  IF parts = <<>> THEN <<>>
  ELSE IF Head(parts) \in {"", "."} THEN Lexical(Tail(parts))
  ELSE <<Head(parts)>> \o Lexical(Tail(parts))

\* a path without ".." pieces that does not pass through the link
Canonical(p) ==
  /\ p.abs
  /\ \A i \in 1..Len(p.parts) : p.parts[i] \notin {"", ".", ".."}
  /\ Len(p.parts) < Len(Link) \/ SubSeq(p.parts, 1, Len(Link)) # Link

\* what C18 says of the relative paths and of the absent ones
C18_RelativeAndAbsent ==
  fmt.pc = "done" =>
    LET p == fmt.process
        logs == fmt.result.logs
        wd == p.working_dir
    IN /\ "combined" \in DOMAIN logs
       /\ "stdout" \in DOMAIN logs <=> p.stdout_log # NullStr
       /\ "stderr" \in DOMAIN logs <=> p.stderr_log # NullStr
       /\ \A k \in DOMAIN logs :
            LET raw == Split(p[LogColumn(k)]) IN
              ~raw.abs =>
                /\ Canonical(logs[k])
                /\ (wd = "/home/x" /\ ".." \notin { raw.parts[i] : i \in 1..Len(raw.parts) })
                     => logs[k].parts = <<"home", "x">> \o raw.parts
                /\ (wd = "/home/x" /\ Head(raw.parts) = "..")
                     => logs[k].parts = <<"home">> \o Tail(raw.parts)
                /\ wd = "/home/link"
                     => logs[k] = resolve_log_path(p[LogColumn(k)], "/home/x")
                /\ (wd = NullStr /\ ".." \notin { raw.parts[i] : i \in 1..Len(raw.parts) })
                     => logs[k].parts = Cwd \o raw.parts

C21_OneRecordPerId ==
  /\ \A r1, r2 \in processes : r1.process_id = r2.process_id => r1 = r2
  /\ th["a"].call.process_id = th["b"].call.process_id =>
       /\ ~(th["a"].pc = "raised" /\ th["b"].pc = "raised")
       /\ Finished({"a", "b"}) =>
            \E w, l \in {"a", "b"} :
              /\ w # l
              /\ th[w].pc = "returned"
              /\ th[l].pc = "raised" /\ th[l].error = "IntegrityError"
              /\ Select(processes, th[w].call.process_id)
                   = { NewRow(th[w].call.process_id, th[w].call.args, now) }

\* C21 witness: a and b registered the same id, b returned and a raised, and
\* the stored record carries b's command
C21_Witness ==
  /\ th["a"].call.process_id = th["b"].call.process_id
  /\ th["b"].pc = "returned"
  /\ th["a"].pc = "raised"
  /\ \E r \in processes : /\ r.process_id = th["b"].call.process_id
                          /\ r.command = th["b"].call.args.command
                          /\ r.command # th["a"].call.args.command

\* C22: a process_id is free again as soon as its record is removed: the
\* ids of the rows a delete or a cleanup removes are no longer stored, and a
\* register of an id that has a removed record and no stored one succeeds and
\* stores a record made of the call's arguments alone: status running, no
\* completed_at, no exit_code, started now.
C22_ReuseAfterRemoval ==
  [][ /\ \A old \in removed'.rows \ removed.rows : ~HasKey(processes', old.process_id)
      /\ ( /\ Step("register_process")
           /\ \E old \in removed.rows : old.process_id = ret'.process_id
           /\ ~HasKey(processes, ret'.process_id) )
         => /\ ret'.error = ""
            /\ \E r \in processes' :
                 /\ Select(processes', ret'.process_id) = {r}
                 /\ r.status = "running"
                 /\ r.completed_at = NullText
                 /\ r.exit_code = NullInt
                 /\ r.started_at = isoformat(now)
                 /\ r.command = ret'.args.command
                 /\ r.pid = ret'.args.pid
                 /\ r.log_file = ret'.args.log_file
                 /\ r.working_dir = ret'.args.working_dir
                 /\ r.stdout_log = ret'.args.stdout_log
                 /\ r.stderr_log = ret'.args.stderr_log
    ]_vars

\* C22 witness: a record that had completed with exit code 0 was removed, and
\* a register of its id with another command went through a day later: the
\* stored record is running, without completed_at and exit_code
C22_Witness ==
  /\ ret.op = "register_process"
  /\ ret.error = ""
  /\ \E old \in removed.rows :
       /\ old.process_id = ret.process_id
       /\ old.status = "completed"
       /\ old.exit_code = 0
       /\ old.completed_at # NullText
       /\ old.command # ret.args.command
  /\ \E r \in processes :
       /\ r.process_id = ret.process_id
       /\ r.command = ret.args.command
       /\ r.status = "running"
       /\ r.completed_at = NullText
       /\ r.exit_code = NullInt
       /\ r.started_at = isoformat((Epoch + 1) * DaySeconds)

TypeOK ==
  /\ \A r \in processes : r.process_id \in ProcessIds
  /\ ret.op \in {"init", "register_process", "update_process_status", "get_process",
                 "list_processes", "delete_process", "cleanup_old_processes"}
====
